---- MODULE Spec2Model ----
(***************************************************************************)
(* Model of src/installer.ts: the Installer class that installs or reuses  *)
(* a Qt toolchain for a build runner.  One run is one process: the          *)
(* constructor followed by getQt.  Runs follow one another on the same      *)
(* machine, so the file system (temporary root, shared cache directory,     *)
(* local tool cache, workspace symlink) outlives a run.                     *)
(*                                                                          *)
(* Strings are sequences of one-character strings, so that includes(),      *)
(* split() and replace() are computed as the code computes them.  Paths     *)
(* are sequences of segments, each segment a string; an absolute path       *)
(* starts with the root segment.                                            *)
(***************************************************************************)
EXTENDS Integers, Sequences, FiniteSets, TLC

\* ------------------------------------------------------------------ bounds
\* Number of runs (processes) in one behaviour of Spec.
MaxRuns == 2

\* ------------------------------------------------------------------ strings
S_empty == <<>>
S_dot == <<".">>
S_comma == <<",">>
S_space == <<" ">>
S_android == <<"a","n","d","r","o","i","d">>
S_mingw == <<"m","i","n","g","w">>
S_wasm == <<"w","a","s","m">>
S_winrt == <<"w","i","n","r","t">>
S_ios == <<"i","o","s">>
S_win32 == <<"w","i","n","3","2">>
S_darwin == <<"d","a","r","w","i","n">>
S_linux == <<"l","i","n","u","x">>
S_freebsd == <<"f","r","e","e","b","s","d">>
S_true == <<"t","r","u","e">>
S_false == <<"f","a","l","s","e">>
S_qt == <<"q","t">>
S_bin == <<"b","i","n">>
S_home == <<"h","o","m","e">>
S_Users == <<"U","s","e","r","s">>
S_actions == <<"a","c","t","i","o","n","s">>
S_temp == <<"t","e","m","p">>
S_script == <<"-","-","s","c","r","i","p","t">>
S_scriptFile == <<"q","t","-","i","n","s","t","a","l","l","e","r","-","s","c","r","i","p","t",".","q","s">>
S_modulePrefix == <<"q","t",".","q","t","5",".">>
S_root == <<"/">>
S_winRoot == <<"C",":","\\">>
S_dotdot == <<".",".">>

\* Inputs of the runs.
V_5152 == <<"5",".","1","5",".","2">>
V_5120 == <<"5",".","1","2",".","0">>
K_gcc64 == <<"g","c","c","_","6","4">>
K_android == <<"a","n","d","r","o","i","d","_","a","r","m","6","4">>
K_mingw == <<"w","i","n","6","4","_","m","i","n","g","w","7","3">>
K_msvc == <<"m","s","v","c","2","0","1","7","_","6","4">>
K_wasm == <<"w","a","s","m","_","3","2">>
K_winrt == <<"w","i","n","r","t","_","x","6","4">>
K_ios == <<"i","o","s">>
K_clang == <<"c","l","a","n","g","_","6","4">>
K_androidMingw == <<"m","i","n","g","w","_","a","n","d","r","o","i","d">>
P_charts == <<"q","t","c","h","a","r","t","s">>
P_chartsWeb == <<"q","t","c","h","a","r","t","s",",","q","t","w","e","b">>
A_verbose == <<"-","-","v","e","r","b","o","s","e">>
A_two == <<"-","v"," ","-","d">>
D_cache == <<"q","t","c","a","c","h","e">>
D_work == <<"w","o","r","k">>
D_opt == <<"o","p","t">>
D_toolcache == <<"t","o","o","l","c","a","c","h","e">>
D_runner == <<"r","u","n","n","e","r">>

\* String.prototype.includes
Includes(s, sub) ==
  \E i \in 0..(Len(s) - Len(sub)) : SubSeq(s, i + 1, i + Len(sub)) = sub

\* String.prototype.replace(/\./g, "")
RemoveDots(s) == SelectSeq(s, LAMBDA c : c # ".")

\* Index of the first occurrence of the character sep in s, 0 if none.
RECURSIVE IndexOf(_, _, _)
IndexOf(s, sep, from) ==
  IF from > Len(s) THEN 0
  ELSE IF s[from] = sep THEN from
  ELSE IndexOf(s, sep, from + 1)

\* String.prototype.split(sep) for a one-character separator: the pieces between
\* the separators, so that the empty string splits into one empty piece.
RECURSIVE Split(_, _)
Split(s, sep) ==
  LET i == IndexOf(s, sep[1], 1) IN
  IF i = 0 THEN <<s>>
  ELSE <<SubSeq(s, 1, i - 1)>> \o Split(SubSeq(s, i + 1, Len(s)), sep)

\* ------------------------------------------------------------------ paths
IsAbsolute(p) == Len(p) > 0 /\ p[1] \in {S_root, S_winRoot}

\* path.normalize: a ".." segment removes the segment before it.
RECURSIVE Normalize(_)
Normalize(p) ==
  IF Len(p) = 0 THEN p
  ELSE LET init == Normalize(SubSeq(p, 1, Len(p) - 1))
           last == p[Len(p)]
       IN IF last = S_dotdot /\ Len(init) > 1
          THEN SubSeq(init, 1, Len(init) - 1)
          ELSE Append(init, last)

\* path.join
Join(p, q) == Normalize(p \o q)

\* The root of the host's file system.
Root(os) == IF os = S_win32 THEN S_winRoot ELSE S_root

\* The working directory of the process.
Cwd(os) == <<Root(os), D_work>>

\* path.resolve
Resolve(os, p) == IF IsAbsolute(p) THEN Normalize(p) ELSE Normalize(Cwd(os) \o p)

\* String.prototype.substr(n) of a path whose root is n characters long.
SubstrRoot(p, n) == IF Len(p) > 0 /\ Len(p[1]) = n THEN Tail(p) ELSE p

\* ------------------------------------------------------------------ platform contract
\* The platform classes and their methods live in ./platform, ./linuxplatform,
\* ./windowsplatform and ./macosplatform; installer.ts only calls them.

\* IPlatform.qmakeName(): the build tool's file name.
QmakeName(cls) ==
  IF cls \in {"MingwPlatform", "MsvcPlatform"}
  THEN <<"q","m","a","k","e",".","e","x","e">>
  ELSE <<"q","m","a","k","e">>

\* IPlatform.makeName()
MakeName(cls) ==
  CASE cls = "MingwPlatform" -> <<"m","i","n","g","w","3","2","-","m","a","k","e">>
    [] cls = "MsvcPlatform" -> <<"n","m","a","k","e">>
    [] OTHER -> <<"m","a","k","e">>

\* IPlatform.testFlags()
TestFlags(cls) ==
  IF cls \in {"MingwPlatform", "MsvcPlatform"} THEN S_empty
  ELSE <<"-","j","1">>

\* IPlatform.installPlatform(): the platform's fragment of the module names.
InstallPlatform(platform) == platform.key

\* IPlatform.extraPackages(): null (the empty sequence here) or the modules the
\* platform adds to every installation.
ExtraPackages(cls) ==
  IF cls = "MingwPlatform"
  THEN << <<"q","t",".","t","o","o","l","s",".","m","i","n","g","w">> >>
  ELSE <<>>

\* IPlatform.setupInstallDir(): the directory to create and the one to publish.
SetupInstallDir(cls) ==
  << <<S_root, <<"i","n","s","t","a","l","l">> >>, <<S_root, <<"i","n","s","t","a","l","l">>, D_opt>> >>

\* ------------------------------------------------------------------ Installer, pure parts
Hosts == {S_linux, S_win32, S_darwin, S_freebsd}

\* A constructor whose switch has no default branch that throws.
SelectPlatformNoDefault(os, platform) ==
  CASE os = S_win32 ->
         IF Includes(platform, S_mingw) THEN "MingwPlatform" ELSE "MsvcPlatform"
    [] os = S_darwin -> "MacosPlatform"
    [] OTHER ->
         IF Includes(platform, S_android) THEN "AndroidPlatform" ELSE "LinuxPlatform"

\* The switch of the constructor: the class of this.platform, or "unsupported"
\* where the constructor throws.
SelectPlatform(os, platform) ==
  CASE os = S_linux ->
         IF Includes(platform, S_android) THEN "AndroidPlatform" ELSE "LinuxPlatform"
    [] os = S_win32 ->
         IF Includes(platform, S_mingw) THEN "MingwPlatform" ELSE "MsvcPlatform"
    [] os = S_darwin -> "MacosPlatform"
    [] OTHER -> "unsupported"

\* initTempDir: RUNNER_TEMP, or a base that depends on the argument it is given.
InitTempDir(platform, env) ==
  IF env.RUNNER_TEMP # <<>> THEN env.RUNNER_TEMP
  ELSE LET baseLocation ==
             IF platform = S_win32
             THEN (IF env.USERPROFILE # <<>> THEN env.USERPROFILE ELSE <<S_winRoot>>)
             ELSE IF platform = S_darwin THEN <<S_root, S_Users>>
             ELSE <<S_root, S_home>>
       IN Join(baseLocation, <<S_actions, S_temp>>)

\* generateScript: the module list handed to qtScript.generateScript.
ScriptModules(version, platform, packages) ==
  LET qtVer == RemoveDots(version)
      base == << S_modulePrefix \o qtVer \o S_dot \o InstallPlatform(platform) >>
      entries == Split(packages, S_comma)
      requested == [i \in 1..Len(entries) |-> S_modulePrefix \o qtVer \o S_dot \o entries[i]]
      extraPkgs == ExtraPackages(platform.cls)
  IN IF extraPkgs # <<>> THEN (base \o requested) \o extraPkgs ELSE base \o requested

\* The argument list acquireQt hands to runInstaller.
InstallerArgs(scriptPath, iArgs) == <<S_script, scriptPath>> \o Split(iArgs, S_space)

\* A shouldTest that forgets the winrt targets.
ShouldTestWithoutWinrt(platform) ==
  ~(\/ Includes(platform.key, S_android)
    \/ Includes(platform.key, S_wasm)
    \/ Includes(platform.key, S_ios))

\* shouldTest
ShouldTest(platform) ==
  IF \/ Includes(platform.key, S_android)
     \/ Includes(platform.key, S_wasm)
     \/ Includes(platform.key, S_winrt)
     \/ Includes(platform.key, S_ios)
  THEN FALSE
  ELSE TRUE

\* String(boolean)
BoolString(b) == IF b THEN S_true ELSE S_false

\* ------------------------------------------------------------------ tool cache (@actions/tool-cache)
ToolCacheRoot(os) == <<Root(os), D_opt, D_toolcache>>

\* The directory tc.cacheDir stores a (tool, version, arch) entry in and tc.find
\* returns for it.
ToolCachePath(os, tool, version, arch) == ToolCacheRoot(os) \o <<tool, version, arch>>

\* tc.find: the stored path, or the empty string.
TcFind(os, cache, tool, version, arch) ==
  IF <<tool, version, arch>> \in cache THEN ToolCachePath(os, tool, version, arch) ELSE <<>>

\* ------------------------------------------------------------------ state
VARIABLES
  host,       \* the machine: os.platform(), process.env, and the runs still to come
  input,      \* the action's inputs that stay the same from run to run
  this,       \* the Installer object of the current run: version, platform, tempDir
  cachedir,   \* the cachedir argument of the current getQt call ("" = not supplied)
  pc,         \* the next step of the current run, or how it ended
  failedAt,   \* the step that threw, "" if none
  trace,      \* the steps the current run has executed, in order
  toolPath,   \* getQt's toolPath (<<>> while null or empty)
  resolved,   \* the value the cache check gave toolPath
  resDir,     \* acquireQt's resDir (<<>> while unset)
  installerArgs, \* the argument list of the run's runInstaller call
  outputs,    \* what the run has published: core.setOutput, core.addPath
  fsTemp,     \* the temporary root: home directory, script file, install root
  fsShared,   \* the shared cache directory the input names
  toolCache,  \* the local tool cache: the (tool, version, arch) entries marked complete
  installLink, \* the target of ./install_link in the workspace (<<>> = no link)
  atStart,    \* the two cache tiers as the current run found them
  prev        \* what the previous run did

vars == <<host, input, this, cachedir, pc, failedAt, trace, toolPath, resolved, resDir,
          installerArgs, outputs, fsTemp, fsShared, toolCache, installLink, atStart, prev>>

NoObject == [version |-> <<>>, platform |-> [cls |-> "none", key |-> <<>>], tempDir |-> <<>>]

NoOutputs ==
  [names |-> <<>>, qtdir |-> <<>>, path |-> <<>>, make |-> <<>>, tests |-> <<>>,
   testflags |-> <<>>, installdir |-> <<>>]

NoPrev ==
  [run |-> 0, version |-> <<>>, cachedir |-> <<>>, emptyStart |-> FALSE,
   acquired |-> FALSE, installerFailed |-> FALSE, qtdir |-> <<>>]

EmptyTemp ==
  [home |-> FALSE, script |-> <<>>, qt |-> "none"]

Versions == {V_5152, V_5120}

NoShared == [exists |-> FALSE, top |-> FALSE, nested |-> FALSE]
EmptyShared == [exists |-> TRUE, top |-> FALSE, nested |-> FALSE]
FilledShared == [exists |-> TRUE, top |-> TRUE, nested |-> FALSE]

\* Neither cache tier holds an installation.
EmptyCaches(tiers) == ~tiers.shared.top /\ ~tiers.shared.nested /\ tiers.cache = {}

\* The state before the first run of a job.  The temporary root and the workspace
\* are fresh; the shared cache directory does not exist, exists and is empty, or
\* holds the installation an earlier job moved there; the local tool cache is empty
\* or holds the entry an earlier job stored.
InitWith(oses, keys, pkgs, args, dirs, temps, shareds, cached, runs) ==
  /\ host \in {[os |-> o, runsLeft |-> runs, USERPROFILE |-> <<>>,
                RUNNER_TEMP |-> IF t THEN <<Root(o), D_runner, S_temp>> ELSE <<>>] :
               o \in oses, t \in temps}
  /\ input \in {[platform |-> k, packages |-> p, iArgs |-> a,
                 cachedir |-> IF d THEN <<Root(host.os), D_opt, D_cache>> ELSE <<D_cache>>] :
                k \in keys, p \in pkgs, a \in args, d \in dirs}
  /\ this = NoObject
  /\ cachedir = <<>>
  /\ pc = "idle"
  /\ failedAt = ""
  /\ trace = <<>>
  /\ toolPath = <<>>
  /\ resolved = <<>>
  /\ resDir = <<>>
  /\ installerArgs = <<>>
  /\ outputs = NoOutputs
  /\ fsTemp = EmptyTemp
  /\ fsShared \in shareds
  /\ toolCache \in {IF c THEN {<<S_qt, V_5152, input.platform>>} ELSE {} : c \in cached}
  /\ atStart = [shared |-> fsShared, cache |-> toolCache]
  /\ installLink = <<>>
  /\ prev = NoPrev

Init ==
  InitWith({S_linux, S_win32, S_freebsd}, {K_gcc64, K_android}, {S_empty, P_charts},
           {S_empty}, {FALSE}, {TRUE}, {NoShared, EmptyShared, FilledShared},
           BOOLEAN, MaxRuns)

\* One run for each combination of a wider set of hosts and inputs, with nothing
\* cached.
InitInputs ==
  InitWith(Hosts,
           {K_gcc64, K_android, K_mingw, K_msvc, K_wasm, K_winrt, K_ios, K_clang, K_androidMingw},
           {S_empty, P_charts, P_chartsWeb}, {S_empty, A_verbose, A_two},
           BOOLEAN, BOOLEAN, {NoShared, EmptyShared}, {FALSE}, 1)

Ended == pc \in {"idle", "done", "failed", "ctorFailed"}

\* A run that goes on to the next step after a step threw.
AdvanceIgnoringFailure(name, ok, next) ==
  /\ trace' = Append(trace, name)
  /\ pc' = next
  /\ failedAt' = IF ok THEN failedAt ELSE name

\* One step of the run: it is recorded, and the run goes on or ends with the throw.
Advance(name, ok, next) ==
  /\ trace' = Append(trace, name)
  /\ pc' = IF ok THEN next ELSE "failed"
  /\ failedAt' = IF ok THEN failedAt ELSE name

\* What the run that just ended leaves for the next one to compare with.
Summary ==
  [run |-> prev.run + 1, version |-> this.version, cachedir |-> cachedir,
   emptyStart |-> EmptyCaches(atStart),
   acquired |-> resDir # <<>> /\ toolPath = resDir,
   installerFailed |-> failedAt = "runInstaller", qtdir |-> outputs.qtdir]

\* new Installer(version, platform), in a new process.
Construct(version, useShared) ==
  /\ Ended
  /\ host.runsLeft > 0
  /\ host' = [host EXCEPT !.runsLeft = @ - 1]
  /\ prev' = IF pc = "idle" THEN prev ELSE Summary
  /\ atStart' = [shared |-> fsShared, cache |-> toolCache]
  /\ cachedir' = IF useShared THEN input.cachedir ELSE <<>>
  /\ LET cls == SelectPlatform(host.os, input.platform) IN
       /\ this' = IF cls = "unsupported" THEN NoObject
                  ELSE [version |-> version,
                        platform |-> [cls |-> cls, key |-> input.platform],
                        tempDir |-> InitTempDir(input.platform, host)]
       /\ pc' = IF cls = "unsupported" THEN "ctorFailed" ELSE "whichPython"
  /\ failedAt' = ""
  /\ trace' = <<>>
  /\ toolPath' = <<>>
  /\ resolved' = <<>>
  /\ resDir' = <<>>
  /\ installerArgs' = <<>>
  /\ outputs' = NoOutputs
  /\ UNCHANGED <<input, fsTemp, fsShared, toolCache, installLink>>

\* io.which('python', true)
WhichPython(ok) ==
  /\ pc = "whichPython"
  /\ Advance("whichPython", ok, "pipInstall")
  /\ UNCHANGED <<host, input, this, cachedir, toolPath, resolved, resDir, installerArgs, outputs,
                 fsTemp, fsShared, toolCache, installLink, atStart, prev>>

\* ex.exec(pythonPath, ["-m", "pip", "install", "qdep"])
PipInstall(ok) ==
  /\ pc = "pipInstall"
  /\ Advance("pipInstall", ok, "resolve")
  /\ UNCHANGED <<host, input, this, cachedir, toolPath, resolved, resDir, installerArgs, outputs,
                 fsTemp, fsShared, toolCache, installLink, atStart, prev>>

\* fssync.existsSync(path.join(cachedir, "bin", qmakeName)): the shared directory
\* holds the build tool at its top.
SharedHasQmake(dir, shared) == dir # <<>> /\ shared.exists /\ shared.top

\* A cache check that asks the local tool cache first.
ResolvedToolPathLocalFirst(os, dir, shared, cache, version, key) ==
  IF <<S_qt, version, key>> \in cache
  THEN ToolCacheRoot(os) \o <<S_qt, version, key>>
  ELSE IF dir # <<>> /\ shared.exists /\ shared.top THEN Resolve(os, dir)
  ELSE <<>>

\* A cache check without the else branch that asks the local tool cache.
ResolvedToolPathSharedOnly(os, dir, shared, cache, version, key) ==
  IF dir # <<>> /\ shared.exists /\ shared.top THEN Resolve(os, dir) ELSE <<>>

\* The cache check of getQt: the value of toolPath after it.
ResolvedToolPath(os, dir, shared, cache, version, key) ==
  IF dir # <<>>
  THEN (IF SharedHasQmake(dir, shared) THEN Resolve(os, dir) ELSE <<>>)
  ELSE TcFind(os, cache, S_qt, version, key)

\* The cache that check consults.
ResolveStep(dir) == IF dir # <<>> THEN "existsSync" ELSE "tcFind"

\* check caches for Qt installation
ResolveCache ==
  /\ pc = "resolve"
  /\ toolPath' = ResolvedToolPath(host.os, cachedir, fsShared, toolCache, this.version, this.platform.key)
  /\ resolved' = toolPath'
  /\ Advance(ResolveStep(cachedir), TRUE, "preInstaller")
  /\ UNCHANGED <<host, input, this, cachedir, resDir, installerArgs, outputs,
                 fsTemp, fsShared, toolCache, installLink, atStart, prev>>

\* A getQt that acquires whatever the cache check found.
AfterPreInstallerAlwaysAcquires(tp) == "downloadTool"

\* The step after the pre-install hook: acquireQt on a miss, the outputs on a hit.
AfterPreInstaller(tp) == IF tp = <<>> THEN "downloadTool" ELSE "setQtdir"

\* A getQt that tells the hook nothing was cached, whatever the cache check found.
PreInstallerStepAlwaysFalse(tp) == "runPreInstaller(false)"

\* The name under which the hook call is recorded: its argument is part of it.
PreInstallerStep(tp) == IF tp = <<>> THEN "runPreInstaller(false)" ELSE "runPreInstaller(true)"

\* this.platform.runPreInstaller(cached)
RunPreInstaller(ok) ==
  /\ pc = "preInstaller"
  /\ Advance(PreInstallerStep(toolPath), ok, AfterPreInstaller(toolPath))
  /\ UNCHANGED <<host, input, this, cachedir, toolPath, resolved, resDir, installerArgs, outputs,
                 fsTemp, fsShared, toolCache, installLink, atStart, prev>>

\* ------------------------------------------------------------------ acquireQt
\* tc.downloadTool(.../online_installers/<installerName>)
DownloadTool(ok) ==
  /\ pc = "downloadTool"
  /\ Advance("downloadTool", ok, "mkdirHome")
  /\ UNCHANGED <<host, input, this, cachedir, toolPath, resolved, resDir, installerArgs, outputs,
                 fsTemp, fsShared, toolCache, installLink, atStart, prev>>

\* fs.mkdir(<tempDir>/home), not recursive: it throws when the directory exists.
MkdirHome(ok) ==
  /\ pc = "mkdirHome"
  /\ ok => ~fsTemp.home
  /\ Advance("mkdirHome", ok, "writeScript")
  /\ fsTemp' = IF ok THEN [fsTemp EXCEPT !.home = TRUE] ELSE fsTemp
  /\ UNCHANGED <<host, input, this, cachedir, toolPath, resolved, resDir, installerArgs, outputs,
                 fsShared, toolCache, installLink, atStart, prev>>

\* fs.writeFile(scriptPath, this.generateScript(installPath, packages)); the script
\* text is a function of the install path and the module list.
WriteScript(ok) ==
  /\ pc = "writeScript"
  /\ Advance("writeScript", ok, "runInstaller")
  /\ fsTemp' = IF ok
               THEN [fsTemp EXCEPT !.script =
                       <<Join(this.tempDir, <<S_qt>>),
                         ScriptModules(this.version, this.platform, input.packages)>>]
               ELSE fsTemp
  /\ UNCHANGED <<host, input, this, cachedir, toolPath, resolved, resDir, installerArgs, outputs,
                 fsShared, toolCache, installLink, atStart, prev>>

\* An acquireQt that stores the install root in the cache tier in a finally block,
\* so also when the installer threw.
RunInstallerStoresOnFailure(ok, partial) ==
  /\ pc = "runInstaller"
  /\ ok => ~partial
  /\ Advance("runInstaller", ok, "whichQdep")
  /\ installerArgs' = <<S_script, Join(this.tempDir, <<S_scriptFile>>)>> \o Split(input.iArgs, S_space)
  /\ fsTemp' = [fsTemp EXCEPT !.qt = IF ok THEN "full" ELSE IF partial THEN "partial" ELSE @]
  /\ fsShared' = IF ~ok /\ cachedir # <<>> THEN [exists |-> TRUE, top |-> TRUE, nested |-> FALSE]
                 ELSE fsShared
  /\ toolCache' = IF ~ok /\ cachedir = <<>>
                  THEN toolCache \cup {<<S_qt, this.version, this.platform.key>>}
                  ELSE toolCache
  /\ UNCHANGED <<host, input, this, cachedir, toolPath, resolved, resDir, outputs,
                 installLink, atStart, prev>>

\* this.platform.runInstaller(downloadPath, args, installPath): on success the tree
\* <installPath>/<version>/<platform> is installed; a failure may leave a part of it.
RunInstaller(ok, partial) ==
  /\ pc = "runInstaller"
  /\ ok => ~partial
  /\ Advance("runInstaller", ok, "whichQdep")
  /\ installerArgs' = InstallerArgs(Join(this.tempDir, <<S_scriptFile>>), input.iArgs)
  /\ fsTemp' = [fsTemp EXCEPT !.qt = IF ok THEN "full" ELSE IF partial THEN "partial" ELSE @]
  /\ UNCHANGED <<host, input, this, cachedir, toolPath, resolved, resDir, outputs,
                 fsShared, toolCache, installLink, atStart, prev>>

\* An acquireQt that looks for qdep but stores the installation without waiting
\* for 'qdep prfgen'.
WhichQdepThenRelocate(ok) ==
  /\ pc = "whichQdep"
  /\ Advance("whichQdep", ok, "relocate")
  /\ UNCHANGED <<host, input, this, cachedir, toolPath, resolved, resDir, installerArgs, outputs,
                 fsTemp, fsShared, toolCache, installLink, atStart, prev>>

\* io.which('qdep', true)
WhichQdep(ok) ==
  /\ pc = "whichQdep"
  /\ Advance("whichQdep", ok, "qdepPrfgen")
  /\ UNCHANGED <<host, input, this, cachedir, toolPath, resolved, resDir, installerArgs, outputs,
                 fsTemp, fsShared, toolCache, installLink, atStart, prev>>

\* ex.exec(qdepPath, ["prfgen", "--qmake", qmakePath])
QdepPrfgen(ok) ==
  /\ pc = "qdepPrfgen"
  /\ Advance("qdepPrfgen", ok, "relocate")
  /\ UNCHANGED <<host, input, this, cachedir, toolPath, resolved, resDir, installerArgs, outputs,
                 fsTemp, fsShared, toolCache, installLink, atStart, prev>>

\* io.mv(source, dest) of @actions/io: when dest is an existing directory the source
\* is moved into it, as <dest>/<basename of source>; otherwise it is renamed to dest.
IoMv(shared) ==
  IF shared.exists
  THEN [shared EXCEPT !.nested = TRUE]
  ELSE [exists |-> TRUE, top |-> TRUE, nested |-> FALSE]

\* The cache tier acquireQt writes.
RelocateStep(dir) == IF dir # <<>> THEN "ioMv" ELSE "tcCacheDir"

\* An acquireQt that stores the installation in the local tool cache whether or not
\* a shared cache directory was given.
RelocateAlwaysLocal(ok) ==
  /\ pc = "relocate"
  /\ Advance("tcCacheDir", ok, "rimraf")
  /\ IF ~ok
     THEN UNCHANGED <<toolCache, resDir>>
     ELSE /\ toolCache' = toolCache \cup {<<S_qt, this.version, this.platform.key>>}
          /\ resDir' = ToolCacheRoot(host.os) \o <<S_qt, this.version, this.platform.key>>
  /\ UNCHANGED <<host, input, this, cachedir, toolPath, resolved, installerArgs, outputs,
                 fsTemp, fsShared, installLink, atStart, prev>>

\* install into the local tool cache or global cache
Relocate(ok) ==
  /\ pc = "relocate"
  /\ Advance(RelocateStep(cachedir), ok, "rimraf")
  /\ IF ~ok
     THEN UNCHANGED <<fsShared, toolCache, fsTemp, resDir>>
     ELSE IF cachedir # <<>>
     THEN /\ fsShared' = IoMv(fsShared)
          /\ fsTemp' = [fsTemp EXCEPT !.qt = "moved"]
          /\ resDir' = Resolve(host.os, cachedir)
          /\ UNCHANGED toolCache
     ELSE /\ toolCache' = toolCache \cup {<<S_qt, this.version, this.platform.key>>}
          /\ resDir' = ToolCachePath(host.os, S_qt, this.version, this.platform.key)
          /\ UNCHANGED <<fsShared, fsTemp>>
  /\ UNCHANGED <<host, input, this, cachedir, toolPath, resolved, installerArgs, outputs,
                 installLink, atStart, prev>>

\* rimraf.sync(installPath); return resDir, which getQt assigns to toolPath.
Rimraf ==
  /\ pc = "rimraf"
  /\ Advance("rimraf", TRUE, "setQtdir")
  /\ fsTemp' = [fsTemp EXCEPT !.qt = "none"]
  /\ toolPath' = resDir
  /\ UNCHANGED <<host, input, this, cachedir, resolved, resDir, installerArgs, outputs,
                 fsShared, toolCache, installLink, atStart, prev>>

\* ------------------------------------------------------------------ getQt, after the cache
\* A getQt that runs the smoke test right after the PATH export, before the
\* post-install hook has run.
SetQtdirThenSmokeTest ==
  /\ pc = "setQtdir"
  /\ Advance("setQtdir", TRUE, "qmakeVersion")
  /\ outputs' = [outputs EXCEPT !.names = Append(@, "qtdir"), !.qtdir = toolPath,
                                !.path = Join(toolPath, <<S_bin>>)]
  /\ UNCHANGED <<host, input, this, cachedir, toolPath, resolved, resDir, installerArgs,
                 fsTemp, fsShared, toolCache, installLink, atStart, prev>>

\* core.setOutput("qtdir", toolPath); core.addPath(<toolPath>/bin); addExtraEnvVars
SetQtdir ==
  /\ pc = "setQtdir"
  /\ Advance("setQtdir", TRUE, "postInstaller")
  /\ outputs' = [outputs EXCEPT !.names = Append(@, "qtdir"), !.qtdir = toolPath,
                                !.path = Join(toolPath, <<S_bin>>)]
  /\ UNCHANGED <<host, input, this, cachedir, toolPath, resolved, resDir, installerArgs,
                 fsTemp, fsShared, toolCache, installLink, atStart, prev>>

\* this.platform.runPostInstaller()
RunPostInstaller(ok) ==
  /\ pc = "postInstaller"
  /\ Advance("runPostInstaller", ok, "qmakeVersion")
  /\ UNCHANGED <<host, input, this, cachedir, toolPath, resolved, resDir, installerArgs, outputs,
                 fsTemp, fsShared, toolCache, installLink, atStart, prev>>

\* ex.exec("qmake", ["-version"])
QmakeVersion(ok) ==
  /\ pc = "qmakeVersion"
  /\ Advance("qmakeVersion", ok, "qmakeQuery")
  /\ UNCHANGED <<host, input, this, cachedir, toolPath, resolved, resDir, installerArgs, outputs,
                 fsTemp, fsShared, toolCache, installLink, atStart, prev>>

\* ex.exec("qmake", ["-query"])
QmakeQuery(ok) ==
  /\ pc = "qmakeQuery"
  /\ Advance("qmakeQuery", ok, "setOutputs")
  /\ UNCHANGED <<host, input, this, cachedir, toolPath, resolved, resDir, installerArgs, outputs,
                 fsTemp, fsShared, toolCache, installLink, atStart, prev>>

\* core.setOutput of make, tests and testflags
SetOutputs ==
  /\ pc = "setOutputs"
  /\ Advance("setOutputs", TRUE, "mkdirInstall")
  /\ outputs' = [outputs EXCEPT !.names = @ \o <<"make", "tests", "testflags">>,
                                !.make = MakeName(this.platform.cls),
                                !.tests = BoolString(ShouldTest(this.platform)),
                                !.testflags = TestFlags(this.platform.cls)]
  /\ UNCHANGED <<host, input, this, cachedir, toolPath, resolved, resDir, installerArgs,
                 fsTemp, fsShared, toolCache, installLink, atStart, prev>>

\* this.platform.setupInstallDir(); io.mkdirP(iPath[0])
MkdirInstall(ok) ==
  /\ pc = "mkdirInstall"
  /\ Advance("mkdirP", ok, "symlink")
  /\ UNCHANGED <<host, input, this, cachedir, toolPath, resolved, resDir, installerArgs, outputs,
                 fsTemp, fsShared, toolCache, installLink, atStart, prev>>

\* The target of install_link: the parent of the tool root, below iPath[0].
LinkTarget(os, cls, tp) ==
  Join(SetupInstallDir(cls)[1],
       SubstrRoot(tp, IF os = S_win32 THEN 3 ELSE 1) \o <<S_dotdot>>)

\* fs.symlink(target, "install_link", 'dir'): it throws when install_link exists.
Symlink(ok) ==
  /\ pc = "symlink"
  /\ ok => installLink = <<>>
  /\ Advance("symlink", ok, "setInstalldir")
  /\ installLink' = IF ok THEN LinkTarget(host.os, this.platform.cls, toolPath) ELSE installLink
  /\ UNCHANGED <<host, input, this, cachedir, toolPath, resolved, resDir, installerArgs, outputs,
                 fsTemp, fsShared, toolCache, atStart, prev>>

\* core.setOutput('installdir', iPath[1])
SetInstalldir ==
  /\ pc = "setInstalldir"
  /\ Advance("setInstalldir", TRUE, "done")
  /\ outputs' = [outputs EXCEPT !.names = Append(@, "installdir"),
                                !.installdir = SetupInstallDir(this.platform.cls)[2]]
  /\ UNCHANGED <<host, input, this, cachedir, toolPath, resolved, resDir, installerArgs,
                 fsTemp, fsShared, toolCache, installLink, atStart, prev>>

\* ------------------------------------------------------------------ specification
Next ==
  \/ \E v \in Versions, useShared \in BOOLEAN : Construct(v, useShared)
  \/ \E ok \in BOOLEAN : WhichPython(ok)
  \/ \E ok \in BOOLEAN : PipInstall(ok)
  \/ ResolveCache
  \/ \E ok \in BOOLEAN : RunPreInstaller(ok)
  \/ \E ok \in BOOLEAN : DownloadTool(ok)
  \/ \E ok \in BOOLEAN : MkdirHome(ok)
  \/ \E ok \in BOOLEAN : WriteScript(ok)
  \/ \E ok \in BOOLEAN, partial \in BOOLEAN : RunInstaller(ok, partial)
  \/ \E ok \in BOOLEAN : WhichQdep(ok)
  \/ \E ok \in BOOLEAN : QdepPrfgen(ok)
  \/ \E ok \in BOOLEAN : Relocate(ok)
  \/ Rimraf
  \/ SetQtdir
  \/ \E ok \in BOOLEAN : RunPostInstaller(ok)
  \/ \E ok \in BOOLEAN : QmakeVersion(ok)
  \/ \E ok \in BOOLEAN : QmakeQuery(ok)
  \/ SetOutputs
  \/ \E ok \in BOOLEAN : MkdirInstall(ok)
  \/ \E ok \in BOOLEAN : Symlink(ok)
  \/ SetInstalldir

Spec == Init /\ [][Next]_vars

SpecInputs == InitInputs /\ [][Next]_vars

\* Whether <dir>/bin/<qmakeName> exists: in the shared cache directory when the
\* installation lies at its top, in the local tool cache when dir is the path of a
\* stored entry (an installed tree holds bin/<qmakeName>, as line 131 expects).
QmakeExistsIn(os, dir, sharedDir, shared, cache) ==
  \/ /\ sharedDir # <<>> /\ dir = Resolve(os, sharedDir)
     /\ shared.exists /\ shared.top
  \/ \E e \in cache : dir = ToolCachePath(os, e[1], e[2], e[3])

\* ------------------------------------------------------------------ vocabulary of the properties
InTrace(step) == \E i \in 1..Len(trace) : trace[i] = step

Count(step) == Cardinality({i \in 1..Len(trace) : trace[i] = step})

\* The run has made its cache check.
PastResolution == InTrace("existsSync") \/ InTrace("tcFind")

\* How often the run has entered acquireQt, whose first statement is the download.
AcquireEntered == Count("downloadTool")

AcquireSteps ==
  {"downloadTool", "mkdirHome", "writeScript", "runInstaller", "whichQdep",
   "qdepPrfgen", "ioMv", "tcCacheDir", "rimraf"}

RunEnded == pc \in {"done", "failed"}

\* The current run repeats the request of the previous one.
SameRequestAsPrev == prev.version = this.version /\ prev.cachedir = cachedir

AllOutputs == <<"qtdir", "make", "tests", "testflags", "installdir">>

\* The run has created install_link.
LinkCreated == InTrace("symlink") /\ failedAt # "symlink"

\* ------------------------------------------------------------------ C1
\* C1: when the first run of a job starts with both cache tiers empty and completes
\* a fresh acquisition, a second run with the identical request finds the
\* installation in the cache: it executes no step of acquireQt and its tool root,
\* and the qtdir it publishes, are the qtdir the first run published.
C1_SecondRunIsCacheHit ==
  (prev.run = 1 /\ prev.emptyStart /\ prev.acquired /\ SameRequestAsPrev /\ PastResolution)
    => /\ resolved # <<>>
       /\ \A i \in 1..Len(trace) : trace[i] \notin AcquireSteps
       /\ toolPath = prev.qtdir
       /\ outputs.qtdir \in {<<>>, prev.qtdir}

\* C1 restricted to the requests for which it holds: no shared cache directory, or
\* one that did not exist before the first run.
C1_HitUnlessMovedIntoExistingDir ==
  (prev.run = 1 /\ prev.emptyStart /\ prev.acquired /\ SameRequestAsPrev /\ PastResolution
     /\ ~(cachedir # <<>> /\ fsShared.nested))
    => /\ resolved # <<>>
       /\ \A i \in 1..Len(trace) : trace[i] \notin AcquireSteps
       /\ toolPath = prev.qtdir
       /\ outputs.qtdir \in {<<>>, prev.qtdir}

\* ------------------------------------------------------------------ C2
\* C2 as stated: a run that got past the cache check and has ended took exactly one
\* path: a hit and acquireQt never entered, or a miss and acquireQt entered once.
C2_ExactlyOnePath ==
  (RunEnded /\ PastResolution)
    => \/ resolved # <<>> /\ AcquireEntered = 0
       \/ resolved = <<>> /\ AcquireEntered = 1

\* C2 amended: acquireQt is entered at most once and never after a hit; a run that
\* missed and has ended entered it exactly once unless runPreInstaller(false) threw,
\* and then not at all.
C2_OnePathOncePreInstallerReturns ==
  /\ AcquireEntered <= 1
  /\ (PastResolution /\ resolved # <<>>) => AcquireEntered = 0
  /\ (RunEnded /\ PastResolution /\ resolved = <<>>)
       => (AcquireEntered = 1 <=> failedAt # "runPreInstaller(false)")

C2_Witness ==
  pc = "done" /\ resolved = <<>> /\ AcquireEntered = 1

\* ------------------------------------------------------------------ C3
\* C3: a run that ends with a failure has set no output and created no symlink, and
\* a run that completes has set all five outputs and created the symlink.
C3_AllOrNothing ==
  /\ pc = "failed" => (outputs.names = <<>> /\ ~LinkCreated)
  /\ pc = "done" => (outputs.names = AllOutputs /\ LinkCreated)

\* ------------------------------------------------------------------ C4
\* C4: when runInstaller threw, the run ends with both cache tiers as it found them,
\* with no local entry for its key if it asked the local tool cache, and with
\* nothing published; and the next run with the same request misses the cache
\* again, so what the failed run left in the temporary root is not taken for an
\* installation.
C4_InstallerFailureCachesNothing ==
  /\ (pc = "failed" /\ failedAt = "runInstaller")
       => /\ fsShared = atStart.shared
          /\ toolCache = atStart.cache
          /\ cachedir = <<>> => <<S_qt, this.version, this.platform.key>> \notin toolCache
          /\ outputs.names = <<>>
          /\ toolPath = <<>>
  /\ (prev.installerFailed /\ SameRequestAsPrev /\ PastResolution) => resolved = <<>>

C4_Witness ==
  /\ prev.installerFailed /\ SameRequestAsPrev /\ PastResolution
  /\ fsTemp.qt = "partial"

\* ------------------------------------------------------------------ C5
\* C5: with a shared cache directory supplied that holds bin/<qmakeName>, the cache
\* check yields the absolute path of that directory and does not call tc.find,
\* whether or not the local tool cache has an entry for the key.
C5_SharedHitSkipsLocalCache ==
  (PastResolution /\ cachedir # <<>> /\ atStart.shared.exists /\ atStart.shared.top)
    => /\ resolved = (IF cachedir[1] \in {S_root, S_winRoot} THEN cachedir
                      ELSE <<Root(host.os), D_work>> \o cachedir)
       /\ resolved[1] = Root(host.os)
       /\ ~InTrace("tcFind")

C5_Witness ==
  /\ PastResolution /\ cachedir # <<>> /\ atStart.shared.exists /\ atStart.shared.top
  /\ <<S_qt, this.version, this.platform.key>> \in toolCache
  /\ pc = "done"

CallerPackages(packages) == IF packages = <<>> THEN <<>> ELSE Split(packages, S_comma)

\* C7: the module list of the script is the base module, then one module per
\* caller package in the order given, then the platform's extra packages, and
\* nothing else.
C7_ModuleList ==
  fsTemp.script # <<>>
    => LET qtVer == SelectSeq(this.version, LAMBDA c : c # ".")
           pkgs == CallerPackages(input.packages)
       IN fsTemp.script[2] =
            (<< S_modulePrefix \o qtVer \o S_dot \o InstallPlatform(this.platform) >>
             \o [i \in 1..Len(pkgs) |-> S_modulePrefix \o qtVer \o S_dot \o pkgs[i]])
            \o ExtraPackages(this.platform.cls)

\* ------------------------------------------------------------------ C8
\* C8: the constructor selects AndroidPlatform on linux for a key containing
\* android and LinuxPlatform for any other key, MingwPlatform on win32 for a key
\* containing mingw and MsvcPlatform for any other key, MacosPlatform on darwin;
\* on any other host it throws, having executed no step, published nothing and
\* left the temporary root, both cache tiers and the workspace as they were.
C8_PlatformSelection ==
  LET key == input.platform
      hasAndroid == key \in {K_android, K_androidMingw}
      hasMingw == key \in {K_mingw, K_androidMingw}
  IN /\ pc \notin {"idle", "ctorFailed"}
          => this.platform.cls =
               (CASE host.os = S_linux -> (IF hasAndroid THEN "AndroidPlatform" ELSE "LinuxPlatform")
                  [] host.os = S_win32 -> (IF hasMingw THEN "MingwPlatform" ELSE "MsvcPlatform")
                  [] host.os = S_darwin -> "MacosPlatform"
                  [] OTHER -> "none")
     /\ host.os \notin {S_linux, S_win32, S_darwin} => pc \in {"idle", "ctorFailed"}
     /\ pc = "ctorFailed"
          => /\ host.os \notin {S_linux, S_win32, S_darwin}
             /\ trace = <<>> /\ outputs = NoOutputs
             /\ fsTemp = EmptyTemp /\ installLink = <<>>
             /\ fsShared = atStart.shared /\ toolCache = atStart.cache

C8_Witness ==
  /\ pc = "done" /\ host.os = S_win32 /\ input.platform = K_androidMingw
  /\ this.platform.cls = "MingwPlatform"

\* ------------------------------------------------------------------ C9
\* C9: the tests output is "false" for the keys that contain android, wasm, winrt
\* or ios and "true" for every other key, on every host and so whatever the
\* platform's test flags are.
C9_TestsOutput ==
  InTrace("setOutputs")
    => outputs.tests =
         (IF input.platform \in {K_android, K_wasm, K_winrt, K_ios, K_androidMingw}
          THEN S_false ELSE S_true)

C9_Witness ==
  /\ InTrace("setOutputs") /\ input.platform = K_winrt /\ outputs.tests = S_false
  /\ outputs.testflags # S_empty

\* ------------------------------------------------------------------ C10
\* C10: a step that throws ends the run, so it is the last step the run executed,
\* and no step is executed twice in a run.
C10_FirstFailureIsLastStep ==
  /\ failedAt # "" => pc = "failed"
  /\ pc = "failed" => (Len(trace) > 0 /\ trace[Len(trace)] = failedAt)
  /\ \A i, j \in 1..Len(trace) : i # j => trace[i] # trace[j]

C10_Witness ==
  pc = "failed" /\ failedAt = "runInstaller" /\ Len(trace) = 8

\* ------------------------------------------------------------------ C11
\* C11: the temporary root is RUNNER_TEMP when that is set; when it is not, it is
\* the base of the host operating system joined with actions/temp: USERPROFILE (or
\* C:\ when unset) on a win32 host, /Users on a darwin host, /home on any other.
C11_TempRootByHost ==
  pc \notin {"idle", "ctorFailed"}
    => this.tempDir =
         (IF host.RUNNER_TEMP # <<>> THEN host.RUNNER_TEMP
          ELSE (CASE host.os = S_win32 ->
                       (IF host.USERPROFILE # <<>> THEN host.USERPROFILE ELSE <<S_winRoot>>)
                  [] host.os = S_darwin -> <<S_root, S_Users>>
                  [] OTHER -> <<S_root, S_home>>)
               \o <<S_actions, S_temp>>)

\* ------------------------------------------------------------------ C12
\* The place of a step in the run's trace, 0 when the run has not executed it.
Pos(step) == IF InTrace(step) THEN CHOOSE i \in 1..Len(trace) : trace[i] = step ELSE 0

\* The number of runPreInstaller calls the run has made.
PreInstallerCalls == Count("runPreInstaller(true)") + Count("runPreInstaller(false)")

\* C12 as stated: every run that has ended has called runPreInstaller exactly once.
C12_HookOnceInEveryRun ==
  RunEnded => PreInstallerCalls = 1

\* C12 amended: runPreInstaller is called at most once in a run and exactly once in
\* a run that reached the cache check, after that check, with true exactly when the
\* check produced a tool path; acquireQt's download begins only after
\* runPreInstaller(false) has returned.
C12_HookOnceAfterResolution ==
  /\ PreInstallerCalls <= 1
  /\ PreInstallerCalls = 1
       => /\ PastResolution
          /\ Pos("runPreInstaller(true)") + Pos("runPreInstaller(false)")
               > Pos("existsSync") + Pos("tcFind")
  /\ (RunEnded /\ PastResolution) => PreInstallerCalls = 1
  /\ InTrace("runPreInstaller(true)") => resolved # <<>>
  /\ InTrace("runPreInstaller(false)") => resolved = <<>>
  /\ InTrace("downloadTool")
       => /\ Pos("runPreInstaller(false)") > 0
          /\ Pos("runPreInstaller(false)") < Pos("downloadTool")
          /\ failedAt # "runPreInstaller(false)"

C12_Witness ==
  /\ pc = "done" /\ InTrace("downloadTool") /\ InTrace("runPreInstaller(false)")
  /\ prev.run = 1

\* ------------------------------------------------------------------ C13
\* The steps of getQt outside acquireQt, in the order of a run that completes.
StepsBeforeAcquire(dir, hit) ==
  <<"whichPython", "pipInstall", ResolveStep(dir),
    IF hit THEN "runPreInstaller(true)" ELSE "runPreInstaller(false)">>

StepsOfAcquire(dir) ==
  <<"downloadTool", "mkdirHome", "writeScript", "runInstaller", "whichQdep",
    "qdepPrfgen", RelocateStep(dir), "rimraf">>

StepsAfterAcquire ==
  <<"setQtdir", "runPostInstaller", "qmakeVersion", "qmakeQuery", "setOutputs",
    "mkdirP", "symlink", "setInstalldir">>

\* C13: a run that completes has executed: the bootstrap, the cache check, the
\* pre-install hook, acquireQt on a miss, the qtdir/PATH export, the post-install
\* hook, qmake -version, qmake -query, the make/tests/testflags outputs, the install
\* directory, the symlink and the installdir output, in this order; and in every
\* run a qmake or qdep invocation comes after the bootstrap, and the smoke test
\* after the PATH export and the post-install hook.
C13_StepOrder ==
  /\ pc = "done"
       => trace = (StepsBeforeAcquire(cachedir, resolved # <<>>)
                   \o (IF resolved # <<>> THEN <<>> ELSE StepsOfAcquire(cachedir)))
                  \o StepsAfterAcquire
  /\ \A s \in {"qdepPrfgen", "qmakeVersion", "qmakeQuery"} :
       InTrace(s) => (0 < Pos("pipInstall") /\ Pos("pipInstall") < Pos(s)
                        /\ failedAt # "pipInstall")
  /\ InTrace("qmakeVersion")
       => /\ 0 < Pos("setQtdir") /\ Pos("setQtdir") < Pos("runPostInstaller")
          /\ Pos("runPostInstaller") < Pos("qmakeVersion")
          /\ failedAt # "runPostInstaller"
          /\ outputs.path # <<>>
  /\ InTrace("qmakeQuery") => Pos("qmakeVersion") < Pos("qmakeQuery")

C13_Witness ==
  pc = "done" /\ Len(trace) = 20 /\ outputs.names = AllOutputs

\* ------------------------------------------------------------------ C14
\* The steps of acquireQt that come before the relocation.
StepsBeforeRelocate ==
  <<"downloadTool", "mkdirHome", "writeScript", "runInstaller", "whichQdep", "qdepPrfgen">>

\* The run has executed acquireQt up to the relocation and none of those steps threw.
CompletedBeforeRelocate ==
  /\ \A i \in 1..Len(StepsBeforeRelocate) :
       /\ InTrace(StepsBeforeRelocate[i])
       /\ failedAt # StepsBeforeRelocate[i]
       /\ i > 1 => Pos(StepsBeforeRelocate[i - 1]) < Pos(StepsBeforeRelocate[i])

\* C14: io.mv or tc.cacheDir is called only after the download, the home
\* directory, the script, the installer and 'qdep prfgen' have succeeded, in that
\* order; a cache tier differs from what the run found only when the run got that
\* far, and a new local entry is the one for the run's key.
C14_CacheWrittenAfterAllSteps ==
  /\ \A s \in {"ioMv", "tcCacheDir"} :
       InTrace(s) => (CompletedBeforeRelocate /\ Pos("qdepPrfgen") < Pos(s))
  /\ fsShared # atStart.shared
       => (CompletedBeforeRelocate /\ InTrace("ioMv") /\ failedAt # "ioMv")
  /\ toolCache # atStart.cache
       => /\ CompletedBeforeRelocate /\ InTrace("tcCacheDir") /\ failedAt # "tcCacheDir"
          /\ toolCache = atStart.cache \cup {<<S_qt, this.version, this.platform.key>>}

C14_Witness ==
  /\ toolCache # atStart.cache /\ atStart.cache # {}
  /\ pc = "done"

\* ------------------------------------------------------------------ C15
\* acquireQt has returned in this run.
AcquireReturned == InTrace("rimraf")

\* C15: with a shared cache directory supplied the run neither calls tc.find nor
\* tc.cacheDir and leaves the local tool cache as it found it, and an acquisition
\* that returned has moved the installed tree to the shared directory; with none
\* supplied the run neither checks nor moves to a shared directory and leaves it
\* as it found it, and an acquisition that returned has stored the tree in the
\* local tool cache under ('qt', version, platform) and its tool root is the path
\* of that entry.
C15_OneTierPerRun ==
  /\ (pc \notin {"idle", "ctorFailed"} /\ cachedir # <<>>)
       => /\ ~InTrace("tcFind") /\ ~InTrace("tcCacheDir")
          /\ toolCache = atStart.cache
          /\ AcquireReturned
               => /\ InTrace("ioMv")
                  /\ fsShared.exists /\ (fsShared.top \/ fsShared.nested)
                  /\ fsShared # atStart.shared
                  /\ fsTemp.qt # "full"
  /\ (pc \notin {"idle", "ctorFailed"} /\ cachedir = <<>>)
       => /\ ~InTrace("existsSync") /\ ~InTrace("ioMv")
          /\ fsShared = atStart.shared
          /\ AcquireReturned
               => /\ InTrace("tcCacheDir")
                  /\ <<S_qt, this.version, this.platform.key>> \in toolCache
                  /\ toolPath = <<Root(host.os), D_opt, D_toolcache, S_qt,
                                  this.version, this.platform.key>>

C15_Witness ==
  /\ cachedir # <<>> /\ AcquireReturned /\ atStart.cache # {}
  /\ pc = "done"

\* ------------------------------------------------------------------ C16
\* C16: once acquireQt has returned, the temporary root holds none of what the
\* acquisition created there: no install root, no home directory, no script file.
C16_TempTreeDeleted ==
  AcquireReturned => (fsTemp.qt = "none" /\ ~fsTemp.home /\ fsTemp.script = <<>>)

\* What does hold: the install root is gone when acquireQt has returned.
C16_InstallRootDeleted ==
  AcquireReturned => fsTemp.qt = "none"

\* ------------------------------------------------------------------ C17
\* C17: what an earlier run left in the temporary root is not in the way of a
\* later acquisition: when a run comes to create its home directory none exists,
\* so fs.mkdir does not throw because of an earlier run, and when it starts the
\* installer the install root holds nothing of an earlier run.
C17_TempRootIsolatedPerRun ==
  /\ pc = "mkdirHome" => ~fsTemp.home
  /\ pc = "runInstaller" => fsTemp.qt = "none"

\* ------------------------------------------------------------------ C18
\* The caller's extra installer arguments: the words of the space-separated input,
\* none for the empty input.
CallerArgs(iArgs) == IF iArgs = <<>> THEN <<>> ELSE Split(iArgs, S_space)

\* C18: the installer is called with '--script', the script path and then the
\* caller's extra arguments in their order; with no extra arguments the list has
\* exactly these two entries.
C18_InstallerArguments ==
  InTrace("runInstaller")
    => /\ installerArgs =
            <<S_script, this.tempDir \o <<S_scriptFile>> >> \o CallerArgs(input.iArgs)
       /\ input.iArgs = <<>> => Len(installerArgs) = 2

\* ------------------------------------------------------------------ C19
\* C19: whenever qtdir has been published, <qtdir>/bin/<qmakeName> exists.
C19_PublishedRootHoldsQmake ==
  outputs.qtdir # <<>>
    => QmakeExistsIn(host.os, outputs.qtdir, input.cachedir, fsShared, toolCache)

\* What does hold: the same, except after a move into a shared cache directory
\* that existed before the move.
C19_HoldsUnlessMovedIntoExistingDir ==
  (outputs.qtdir # <<>> /\ ~(cachedir # <<>> /\ fsShared.nested))
    => QmakeExistsIn(host.os, outputs.qtdir, input.cachedir, fsShared, toolCache)

====
